---- MODULE Spec2Model ----
(***************************************************************************)
(* State-machine model of the trading bot's real-time streaming core       *)
(* (BasicBot's websocket management in trading_bot_backend/bot/            *)
(* bot_logic.py, driven by websocket_endpoint in trading_bot_backend/      *)
(* main.py) and of its slice-based order strategies (twap / grid in        *)
(* bot_logic.py, place_twap_order / place_grid_orders in codebase.py).     *)
(* Further sections model the order request wrapper and the trade log      *)
(* (main.py, services/trade_service.py), the store of user API keys        *)
(* (services/user_api_key_service.py), get_bot_singleton (main.py) and     *)
(* get_account_balance (codebase.py).                                      *)
(*                                                                         *)
(* Scheduling.  The websocket handlers and the broadcast coroutines all    *)
(* run on one asyncio event loop.  A coroutine keeps the loop until it     *)
(* suspends, and it suspends only on I/O: ws.accept(), asyncio.to_thread,  *)
(* asyncio.sleep and client_ws.send_json.  Awaiting another coroutine of   *)
(* the bot does not suspend by itself, and acquiring an asyncio.Lock that  *)
(* is free does not suspend either.  No body of `async with self._lock`    *)
(* in bot_logic.py contains an await, so the lock is free whenever the     *)
(* loop switches coroutines.  Each action below is therefore one run of    *)
(* a coroutine from one suspension point to the next.                      *)
(*                                                                         *)
(* Call of the start.  websocket_endpoint passes the user's identity and   *)
(* decrypted credentials to start_user_data_stream (main.py:161-164); the  *)
(* method in bot_logic.py declares no such parameters and opens the stream *)
(* with the credentials of env.py.  The model takes the method's body as   *)
(* it is in bot_logic.py and the sequence of calls as it is in main.py;    *)
(* the caller's identity only labels the session the call creates.         *)
(***************************************************************************)
EXTENDS Integers, Sequences, FiniteSets, TLC

\* ------------------------------------------------------------------ bounds
\* Upstream manager instances (ThreadedWebsocketManager) ever created.
MaxSessions == 3
\* Raw messages the upstream user-data stream delivers to the callback.
MaxEvents == 1
\* upstream messages delivered in the runs that look at the order of
\* fan-out
MaxPublished == 2
\* the largest number of TWAP slices asked for
MaxSlices == 3
\* the largest number of grid levels asked for
MaxLevels == 3
\* rows the trade_history table can hold
MaxTrades == 3
\* API key records ever created
MaxKeys == 2
\* the last reading of the clock
MaxTime == 5
\* calls of get_bot_singleton each caller makes
MaxCalls == 3

\* codebase.py:101
max_retries == 3

\* ------------------------------------------------------------ input domains

\* quantities, prices, durations a strategy is called with
Quantities == {0, 1, 3}
Prices == {1, 2, 4, 100, 200}
Intervals == {0, 1}
\* what the exchange answers to create_order
GatewayOutcomes == {"filled", "empty", "raises"}
\* order ids the exchange gives, statuses of a logged trade
OrderIds == {"o1", "o2"}
TradeStatuses == {"NEW", "FILLED"}
\* order types place_order is called with; "TRAILING_STOP" stands for the
\* types it has no branch for
OrderTypes == {"MARKET", "LIMIT", "STOP_MARKET", "STOP_LOSS_LIMIT",
               "TRAILING_STOP"}
\* an optional float argument
Optional == {"None", "given"}
\* what client.get_symbol_info and client.create_order answer, and the
\* code of a BinanceAPIException
SymbolInfoOutcomes == {"info", "None", "BinanceAPIException"}
CreateOrderOutcomes == {"order", "BinanceAPIException", "ConnectionError"}
ApiCodes == {0 - 2010, 0 - 1021, 0 - 1013}
\* ids of API key records, what a key update sets, how a commit and a
\* validation with Binance end
KeyIds == 1..MaxKeys
Labels == {"l1", "l2"}
CommitOutcomes == {"committed", "raises"}
ValidationOutcomes == {"passed", "BinanceAPIException", "ValueError",
                       "ConnectionError"}
\* concurrent callers of get_bot_singleton
Callers == {"c1", "c2"}
\* what one account request of get_account_balance ends in
RequestOutcomes == {"well_formed", "malformed", "unparsable_balance",
                    "BinanceAPIException", "KeyError", "ConnectionError"}
\* The websocket connections (FastAPI WebSocket objects) of the run.
WebSockets == {"w1", "w2"}

\* The trading identities (user ids) the tokens can resolve to.
Users == {"userX", "userY"}

\* Outcomes of creating and starting the upstream manager
\* (bot_logic.py:288-290): a stream key is returned, no key is returned,
\* or one of twm.start() / twm.start_user_socket() raises.
StartOutcomes == {"key", "no_key", "raises"}

\* Outcomes of stopping it (bot_logic.py:312-315): both calls return,
\* twm.stop_socket raises, or twm.join raises after stop_socket returned.
StopOutcomes == {"stopped", "stop_socket_raises", "join_raises"}

\* The 'e' tag (and, where the code looks at it, the payload) of a raw
\* upstream message, bot_logic.py:238-263.
MsgKinds == {"error", "executionReport_NEW", "executionReport_FILLED",
             "outboundAccountPosition", "outboundAccountPosition_zero",
             "listenKeyExpired"}

VARIABLES
    twm,                      \* BasicBot.twm: 0 is None, else the manager's id
    user_data_stream_key,     \* BasicBot.user_data_stream_key: 0 is None
    user_data_stream_started, \* BasicBot.user_data_stream_started
    active_websockets,        \* BasicBot.active_websockets (a list)
    sessions,                 \* every upstream manager created so far
    pc,                       \* position of each websocket_endpoint handler
    token_user,               \* main.py:140-141: the user of each connection
    healthy,                  \* whether send_json on the connection succeeds
    attach_mode,              \* what the handler's attach found
    events,                   \* raw upstream messages given to the callback
    tasks,                    \* broadcast_to_clients coroutines
    delivered,                \* per connection: the events it was sent
    forwarded,                \* events handed to trade_service.log_trade
    outbox,                   \* per connection: broadcasts awaiting send_json
    run,                      \* the strategy call in progress (twap, grid, ...)
    cancelled_at,             \* where the run was when its request was cancelled
    trade_history,            \* rows of the trade_history table
    log_trade_result,         \* how the last call of log_trade ended
    http_response,            \* what the last order request was answered
    user_api_keys,            \* rows of the user_api_keys table
    key_id_seq,               \* the last id the table's autoincrement gave
    now,                      \* the clock read by datetime.now and func.now
    key_result,               \* the last call of the key service
    key_audit,                \* per key: tests that passed, time of last test
    bot_singleton,            \* main.py:80: 0 is None, else the instance
    bot_init_lock,            \* main.py:81: the caller holding the lock
    callers,                  \* each caller of get_bot_singleton: position,
                              \* calls made, instance and status it got,
                              \* calls that ended in a failure
    constructed,              \* BasicBot instances constructed so far
    balance_call              \* the get_account_balance call in progress

key_vars == <<user_api_keys, key_id_seq, now, key_result, key_audit>>

singleton_vars == <<bot_singleton, bot_init_lock, callers, constructed>>

vars == <<twm, user_data_stream_key, user_data_stream_started,
          active_websockets, sessions, pc, token_user, healthy,
          attach_mode, events, tasks, delivered, forwarded, outbox, run, cancelled_at, trade_history, log_trade_result, http_response, key_vars, singleton_vars, balance_call>>

stream_vars == <<twm, user_data_stream_key, user_data_stream_started,
                 active_websockets, sessions, pc, token_user, healthy,
                 attach_mode, events, tasks, delivered, forwarded, outbox>>

\* ---------------------------------------------------------------- helpers
Range(s) == {s[i] : i \in DOMAIN s}

Contains(s, x) == \E i \in DOMAIN s : s[i] = x

RECURSIVE Without(_, _)
\* list.remove(x) for a list that holds x at most once
Without(s, x) ==
    IF s = <<>> THEN <<>>
    ELSE IF Head(s) = x THEN Tail(s)
    ELSE <<Head(s)>> \o Without(Tail(s), x)

RECURSIVE WithoutAll(_, _)
WithoutAll(s, xs) ==
    IF xs = <<>> THEN s ELSE WithoutAll(Without(s, Head(xs)), Tail(xs))

\* The bot's stream fields and the upstream managers as one value, so that
\* the methods below are functions from state to state.
Bot == [twm |-> twm,
        user_data_stream_key |-> user_data_stream_key,
        user_data_stream_started |-> user_data_stream_started,
        active_websockets |-> active_websockets,
        sessions |-> sessions]

SetBot(b) ==
    /\ twm' = b.twm
    /\ user_data_stream_key' = b.user_data_stream_key
    /\ user_data_stream_started' = b.user_data_stream_started
    /\ active_websockets' = b.active_websockets
    /\ sessions' = b.sessions

\* The life of an upstream manager: "open" while its user-data stream is
\* connected; "closed" once stop_user_data_stream has stopped the stream;
\* "failed" when it was stopped because the start did not yield a stream;
\* "replaced" when start found it left over and stopped it; "abandoned"
\* when the bot dropped it after the attempt to stop it raised.
SessionStates == {"open", "closed", "failed", "replaced", "abandoned"}

\* twm.stop() / a completed twm.stop_socket: the upstream connection of
\* manager i is closed.
CloseSession(ss, i, why) == [ss EXCEPT ![i].state = why]

\* ------------------------------------------------- BasicBot stream methods

\* The key and secret the upstream manager is created with: API_KEY and
\* API_SECRET of env.py (bot_logic.py:288).
EnvCredentials == <<"key and secret of", "env.py">>

\* The key and secret websocket_endpoint decrypts for the user of the
\* token (main.py:147-153).
StoredCredentials(user) == <<"key and secret of", user>>

\* bot_logic.py:282-301, the part of start_user_data_stream after the
\* already-running check.  `by` is the connection whose handler made the
\* call; BasicBot takes no identity or credentials (it uses API_KEY and
\* API_SECRET of env.py), so `by` only labels the created manager.
OpenUpstream(b, up, by) ==
    LET ss0 == IF b.twm # 0
               THEN CloseSession(b.sessions, b.twm, "replaced")
               ELSE b.sessions
        id == Len(ss0) + 1
        new(st) == [state |-> st, opened_by |-> by,
                    credentials |-> EnvCredentials]
    IN  CASE up = "key" ->
               [b EXCEPT !.sessions = Append(ss0, new("open")),
                         !.twm = id,
                         !.user_data_stream_key = id,
                         !.user_data_stream_started = TRUE]
          [] up = "no_key" ->
               [b EXCEPT !.sessions = Append(ss0, new("failed")),
                         !.twm = 0,
                         !.user_data_stream_key = 0]
          [] OTHER ->
               [b EXCEPT !.sessions = Append(ss0, new("failed")),
                         !.twm = 0,
                         !.user_data_stream_started = FALSE]

\* start_user_data_stream without the already-running check of line 279.
start_user_data_stream_unchecked(b, up, by) == OpenUpstream(b, up, by)

\* bot_logic.py:277-301
start_user_data_stream(b, up, by) ==
    IF b.user_data_stream_started THEN b ELSE OpenUpstream(b, up, by)

\* stop_user_data_stream that forgets to clear the bookkeeping.
stop_user_data_stream_keeps_flag(b, down) ==
    IF ~b.user_data_stream_started \/ b.twm = 0 THEN b
    ELSE [b EXCEPT !.sessions = CloseSession(b.sessions, b.twm, "closed")]

\* stop_user_data_stream without the check of line 305: with no manager
\* held it stops the manager it created last once more.
stop_user_data_stream_unguarded(b, down) ==
    LET target == IF b.twm # 0 THEN b.twm ELSE Len(b.sessions)
    IN  IF target = 0 THEN b
        ELSE CASE down = "stopped" ->
                    [b EXCEPT !.sessions = CloseSession(b.sessions, target, "closed"),
                              !.user_data_stream_key = 0,
                              !.user_data_stream_started = FALSE,
                              !.twm = 0]
               [] down = "stop_socket_raises" /\ b.user_data_stream_key # 0 ->
                    [b EXCEPT !.sessions = CloseSession(b.sessions, target, "abandoned"),
                              !.user_data_stream_started = FALSE,
                              !.twm = 0]
               [] OTHER ->
                    [b EXCEPT !.sessions = CloseSession(b.sessions, target, "closed"),
                              !.user_data_stream_started = FALSE,
                              !.twm = 0]

\* stop_user_data_stream whose except branch does no bookkeeping: after a
\* failure of the upstream the stream is still marked started.
stop_user_data_stream_raises(b, down) ==
    IF ~b.user_data_stream_started \/ b.twm = 0 THEN b
    ELSE IF down = "stopped"
         THEN [b EXCEPT !.sessions = CloseSession(b.sessions, b.twm, "closed"),
                        !.user_data_stream_key = 0,
                        !.user_data_stream_started = FALSE,
                        !.twm = 0]
         ELSE [b EXCEPT !.sessions = CloseSession(b.sessions, b.twm, "abandoned")]

\* bot_logic.py:303-325.  When stop_socket raises, the except branch drops
\* the manager without having stopped it: the session is abandoned.
stop_user_data_stream(b, down) ==
    IF ~b.user_data_stream_started \/ b.twm = 0 THEN b
    ELSE CASE down = "stopped" ->
                [b EXCEPT !.sessions = CloseSession(b.sessions, b.twm, "closed"),
                          !.user_data_stream_key = 0,
                          !.user_data_stream_started = FALSE,
                          !.twm = 0]
           [] down = "stop_socket_raises" /\ b.user_data_stream_key # 0 ->
                [b EXCEPT !.sessions = CloseSession(b.sessions, b.twm, "abandoned"),
                          !.user_data_stream_started = FALSE,
                          !.twm = 0]
           [] OTHER ->
                [b EXCEPT !.sessions = CloseSession(b.sessions, b.twm, "closed"),
                          !.user_data_stream_started = FALSE,
                          !.twm = 0]

\* bot_logic.py:203-209
add_websocket_client(b, websocket, up) ==
    LET b1 == IF ~Contains(b.active_websockets, websocket)
              THEN [b EXCEPT !.active_websockets = Append(@, websocket)]
              ELSE b
    IN  IF Len(b1.active_websockets) = 1 /\ ~b1.user_data_stream_started
        THEN start_user_data_stream(b1, up, websocket)
        ELSE b1

\* remove_websocket_client that stops the stream whenever it is running,
\* without looking at the remaining clients.
remove_websocket_client_always_stops(b, websocket, down) ==
    LET b1 == IF Contains(b.active_websockets, websocket)
              THEN [b EXCEPT !.active_websockets = Without(@, websocket)]
              ELSE b
    IN  IF b1.user_data_stream_started
        THEN stop_user_data_stream(b1, down)
        ELSE b1

\* remove_websocket_client that takes a connection it does not find in the
\* list for the last client.
remove_websocket_client_stops_for_stranger(b, websocket, down) ==
    LET b1 == IF Contains(b.active_websockets, websocket)
              THEN [b EXCEPT !.active_websockets = Without(@, websocket)]
              ELSE b
    IN  IF /\ \/ b1.active_websockets = <<>>
              \/ ~Contains(b.active_websockets, websocket)
           /\ b1.user_data_stream_started
        THEN stop_user_data_stream(b1, down)
        ELSE b1

\* bot_logic.py:211-218
remove_websocket_client(b, websocket, down) ==
    LET b1 == IF Contains(b.active_websockets, websocket)
              THEN [b EXCEPT !.active_websockets = Without(@, websocket)]
              ELSE b
    IN  IF b1.active_websockets = <<>> /\ b1.user_data_stream_started
        THEN stop_user_data_stream(b1, down)
        ELSE b1

\* No strategy call has been made.  The fields of a run: the method and
\* its arguments, the position in the method, the loop index i, the
\* quantity per order computed on entry, the method's local list of
\* placed orders, the place_order calls made so far with what the exchange
\* answered, the sleeps taken, and what the caller got.
NoRun ==
    [method |-> "none", args |-> <<>>, run_pc |-> "idle", i |-> 0,
     qty_per_order |-> 0, placed_orders |-> <<>>, gateway |-> <<>>,
     sleeps |-> 0, result |-> [kind |-> "pending"]]

\* No call of the key service has been made.
NoKeyCall ==
    [op |-> "none", user_id |-> "none", key_id |-> 0, returned |-> "none"]

\* No call of get_account_balance has been made.
NoBalanceCall ==
    [pc |-> "idle", attempt |-> 0, requests |-> <<>>, sleeps |-> 0,
     result |-> "pending"]

\* -------------------------------------------------------------------- Init
Init ==
    /\ twm = 0
    /\ user_data_stream_key = 0
    /\ user_data_stream_started = FALSE
    /\ active_websockets = <<>>
    /\ sessions = <<>>
    /\ pc = [w \in WebSockets |-> "connecting"]
    /\ token_user \in {f \in [WebSockets -> Users] : f["w1"] = "userX"}
    /\ healthy = [w \in WebSockets |-> TRUE]
    /\ attach_mode = [w \in WebSockets |-> "none"]
    /\ events = <<>>
    /\ tasks = <<>>
    /\ delivered = [w \in WebSockets |-> <<>>]
    /\ forwarded = <<>>
    /\ outbox = [w \in WebSockets |-> <<>>]
    /\ run = NoRun
    /\ cancelled_at = [run_pc |-> "never", recorded |-> 0]
    /\ trade_history = <<>>
    /\ log_trade_result = [outcome |-> "none", duplicate |-> FALSE]
    /\ http_response = [status |-> 0, raised |-> "none"]
    /\ user_api_keys = <<>>
    /\ key_id_seq = 0
    /\ now = 1
    /\ key_result = NoKeyCall
    /\ key_audit = [passed |-> {}, tested_at |-> [id \in KeyIds |-> 0]]
    /\ bot_singleton = 0
    /\ bot_init_lock = "free"
    /\ callers = [c \in Callers |->
                    [pc |-> "idle", calls |-> 0, result |-> 0, status |-> 0,
                     failures |-> 0]]
    /\ constructed = 0
    /\ balance_call = NoBalanceCall

\* ------------------------------------------------- websocket_endpoint steps

\* main.py:139-158: token validated, active key found and decrypted,
\* ws.accept() awaited.
Accept(w) ==
    /\ pc[w] = "connecting"
    /\ pc' = [pc EXCEPT ![w] = "accepted"]
    /\ UNCHANGED <<twm, user_data_stream_key, user_data_stream_started,
                   active_websockets, sessions, token_user, healthy,
                   attach_mode,
                   events, tasks, delivered, forwarded, outbox, run, cancelled_at, trade_history, log_trade_result, http_response, key_vars, singleton_vars, balance_call>>

\* main.py:139-156, 168-180: the connection is refused before the attach
\* (bad token, no key, decryption failure); the finally block still runs
\* remove_websocket_client.
Reject(w, down) ==
    /\ pc[w] = "connecting"
    /\ SetBot(remove_websocket_client(Bot, w, down))
    /\ pc' = [pc EXCEPT ![w] = "rejected"]
    /\ UNCHANGED <<token_user, healthy, attach_mode, events, tasks, delivered,
                   forwarded, outbox, run, cancelled_at, trade_history, log_trade_result, http_response, key_vars, singleton_vars, balance_call>>

\* main.py:161-165: start_user_data_stream, then add_websocket_client.
\* Neither call suspends, so the pair is one step of the event loop.
Attach(w, up1, up2) ==
    /\ pc[w] = "accepted"
    /\ LET b1 == start_user_data_stream(Bot, up1, w)
           b2 == add_websocket_client(b1, w, up2)
       IN  /\ Len(b2.sessions) <= MaxSessions
           /\ SetBot(b2)
           /\ attach_mode' = [attach_mode EXCEPT ![w] =
                 IF user_data_stream_started THEN "reused"
                 ELSE IF b2.user_data_stream_started THEN "created"
                 ELSE "start_failed"]
    /\ pc' = [pc EXCEPT ![w] = "attached"]
    /\ UNCHANGED <<token_user, healthy, events, tasks, delivered, forwarded, outbox, run, cancelled_at, trade_history, log_trade_result, http_response, key_vars, singleton_vars, balance_call>>

\* main.py:167-180: the keep-alive sleep ends (disconnect, cancellation)
\* and the finally block runs remove_websocket_client.
Release(w, down) ==
    /\ pc[w] = "attached"
    /\ SetBot(remove_websocket_client(Bot, w, down))
    /\ pc' = [pc EXCEPT ![w] = "closed"]
    /\ UNCHANGED <<token_user, healthy, attach_mode, events, tasks, delivered,
                   forwarded, outbox, run, cancelled_at, trade_history, log_trade_result, http_response, key_vars, singleton_vars, balance_call>>

\* The peer of an attached connection goes away without the handler
\* noticing: from now on send_json on it raises.
Break(w) ==
    /\ pc[w] = "attached"
    /\ healthy[w]
    /\ healthy' = [healthy EXCEPT ![w] = FALSE]
    /\ UNCHANGED <<twm, user_data_stream_key, user_data_stream_started,
                   active_websockets, sessions, pc, token_user, attach_mode,
                   events, tasks, delivered, forwarded, outbox, run, cancelled_at, trade_history, log_trade_result, http_response, key_vars, singleton_vars, balance_call>>

\* ------------------------------------------------ upstream callback, fan-out

\* A classification that passes on the messages it does not know.
ProcessedTypePassThrough(kind) ==
    CASE kind = "error" -> "error"
      [] kind \in {"executionReport_NEW", "executionReport_FILLED"} -> "order_update"
      [] kind = "outboundAccountPosition" -> "balance_update"
      [] kind = "outboundAccountPosition_zero" -> "none"
      [] OTHER -> "raw"

\* bot_logic.py:238-263: the message handed to broadcast_to_clients for a
\* raw message, "none" when processed_message stays None.
ProcessedType(kind) ==
    CASE kind = "error" -> "error"
      [] kind \in {"executionReport_NEW", "executionReport_FILLED"} -> "order_update"
      [] kind = "outboundAccountPosition" -> "balance_update"
      [] OTHER -> "none"

NewTask(ev, type) ==
    [ev |-> ev, type |-> type, st |-> "scheduled", copy |-> <<>>,
     idx |-> 0, clients_to_remove |-> <<>>]

\* bot_logic.py:236-275, _process_user_data_message: called by the upstream
\* manager's thread with a raw message of an open stream; schedules
\* broadcast_to_clients on the event loop when the message is recognized.
process_user_data_message(s, kind) ==
    /\ s \in DOMAIN sessions
    /\ sessions[s].state = "open"
    /\ events' = Append(events, [e |-> kind, session |-> s])
    /\ tasks' = IF ProcessedType(kind) # "none"
                THEN Append(tasks, NewTask(Len(events) + 1, ProcessedType(kind)))
                ELSE tasks
    /\ UNCHANGED <<twm, user_data_stream_key, user_data_stream_started,
                   active_websockets, sessions, pc, token_user, healthy,
                   attach_mode,
                   delivered, forwarded, outbox, run, cancelled_at, trade_history, log_trade_result, http_response, key_vars, singleton_vars, balance_call>>

\* The upstream manager delivers a message, as long as fewer than
\* MaxEvents have been delivered.
Receive(s, kind) ==
    /\ Len(events) < MaxEvents
    /\ process_user_data_message(s, kind)

\* bot_logic.py:220-226: the coroutine starts (the loop runs scheduled
\* coroutines in the order they were scheduled), returns at once when
\* there is no client, else copies the list and awaits the first send.
BroadcastBegin(k) ==
    /\ k \in DOMAIN tasks
    /\ tasks[k].st = "scheduled"
    /\ \A j \in 1..(k - 1) : tasks[j].st # "scheduled"
    /\ tasks' = [tasks EXCEPT ![k] =
                    IF active_websockets = <<>>
                    THEN [@ EXCEPT !.st = "done"]
                    ELSE [@ EXCEPT !.st = "sending",
                                   !.copy = active_websockets,
                                   !.idx = 1]]
    /\ outbox' = IF active_websockets = <<>> THEN outbox
                 ELSE [outbox EXCEPT ![active_websockets[1]] = Append(@, k)]
    /\ UNCHANGED <<twm, user_data_stream_key, user_data_stream_started,
                   active_websockets, sessions, pc, token_user, healthy,
                   attach_mode,
                   events, delivered, forwarded, run, cancelled_at, trade_history, log_trade_result, http_response, key_vars, singleton_vars, balance_call>>

\* send_json succeeds on a connection that is still open and whose peer
\* is there; on any other it raises.
SendSucceeds(w) == pc[w] = "attached" /\ healthy[w]

\* bot_logic.py:230-234: the clients marked during the loop are removed.
Prune(list, clients_to_remove) == WithoutAll(list, clients_to_remove)

\* A broadcast in which a failed send is not caught and ends the
\* coroutine: nothing is marked, the remaining clients are skipped.
AfterSendUncaught(t, w, ok) ==
    [t EXCEPT !.idx = @ + 1,
              !.st = IF ~ok \/ t.idx = Len(t.copy) THEN "done" ELSE "sending"]

\* What the resumption after one send_json does to the task: the result
\* of the send is handled (lines 226-229) and the loop goes on to the
\* next client, or ends.
AfterSend(t, w, ok) ==
    [t EXCEPT !.clients_to_remove = IF ok THEN @ ELSE Append(@, w),
              !.idx = @ + 1,
              !.st = IF t.idx = Len(t.copy) THEN "done" ELSE "sending"]

\* The sends awaited on the connections after the send of broadcast k to
\* w has completed and k has gone on to the connection next, if any.
Handover(box, k, w, next) ==
    LET popped == [box EXCEPT ![w] = Tail(@)]
    IN  IF next = <<>> THEN popped
        ELSE [popped EXCEPT ![next[1]] = Append(@, k)]

\* bot_logic.py:224-234: one awaited send_json completes; after the last
\* one the coroutine runs on to the removal of the marked clients.  A
\* connection writes its messages in the order send_json was called, so
\* the send that completes on a connection is the oldest one awaited.
BroadcastSend(k) ==
    /\ k \in DOMAIN tasks
    /\ tasks[k].st = "sending"
    /\ outbox[tasks[k].copy[tasks[k].idx]] # <<>>
    /\ Head(outbox[tasks[k].copy[tasks[k].idx]]) = k
    /\ LET t == tasks[k]
           w == t.copy[t.idx]
           ok == SendSucceeds(w)
           t2 == AfterSend(t, w, ok)
       IN  /\ tasks' = [tasks EXCEPT ![k] = t2]
           /\ outbox' = Handover(outbox, k, w,
                                 IF t2.st = "done" THEN <<>>
                                 ELSE <<t.copy[t2.idx]>>)
           /\ delivered' = IF ok
                           THEN [delivered EXCEPT ![w] = Append(@, t.ev)]
                           ELSE delivered
           /\ active_websockets' =
                 IF t2.st = "done"
                 THEN Prune(active_websockets, t2.clients_to_remove)
                 ELSE active_websockets
    /\ UNCHANGED <<twm, user_data_stream_key, user_data_stream_started,
                   sessions, pc, token_user, healthy, attach_mode, events,
                   forwarded, run, cancelled_at, trade_history, log_trade_result, http_response, key_vars, singleton_vars, balance_call>>

Next ==
    \/ \E w \in WebSockets : Accept(w)
    \/ \E w \in WebSockets, down \in StopOutcomes : Reject(w, down)
    \/ \E w \in WebSockets, up1, up2 \in StartOutcomes : Attach(w, up1, up2)
    \/ \E w \in WebSockets, down \in StopOutcomes : Release(w, down)
    \/ \E w \in WebSockets : Break(w)
    \/ \E s \in 1..MaxSessions, kind \in MsgKinds : Receive(s, kind)
    \/ \E k \in 1..MaxEvents : BroadcastBegin(k)
    \/ \E k \in 1..MaxEvents : BroadcastSend(k)

Spec == Init /\ [][Next]_vars

\* ----------------------------------------------------- fan-out in sequence
\* The same connections, stream methods and broadcasts, with upstream
\* calls that succeed and up to MaxPublished messages, to follow several
\* broadcasts that are under way at once.

FanOutKinds == {"executionReport_NEW", "error"}

Publish(s, kind) ==
    /\ Len(events) < MaxPublished
    /\ process_user_data_message(s, kind)

NextFanOut ==
    \/ \E w \in WebSockets : Accept(w)
    \/ \E w \in WebSockets : Attach(w, "key", "key")
    \/ \E w \in WebSockets : Release(w, "stopped")
    \/ \E w \in WebSockets : Break(w)
    \/ \E s \in 1..MaxSessions, kind \in FanOutKinds : Publish(s, kind)
    \/ \E k \in 1..MaxPublished : BroadcastBegin(k)
    \/ \E k \in 1..MaxPublished : BroadcastSend(k)

SpecFanOut == Init /\ [][NextFanOut]_vars

\* The connection whose peer reads so slowly that a send_json to it may
\* stay pending for ever.
SlowSubscriber == "w1"

\* A send_json completes: one to a connection other than the slow one,
\* or one that raises because the connection is closed or broken.
PromptSend(k) ==
    /\ k \in DOMAIN tasks
    /\ tasks[k].st = "sending"
    /\ \/ tasks[k].copy[tasks[k].idx] # SlowSubscriber
       \/ ~SendSucceeds(tasks[k].copy[tasks[k].idx])
    /\ BroadcastSend(k)

\* The event loop runs every scheduled broadcast, and every send
\* completes except those to the slow connection while it is open;
\* nothing is assumed of these.
SpecSlowSubscriber ==
    /\ Init
    /\ [][NextFanOut]_vars
    /\ \A k \in 1..MaxPublished :
          WF_vars(BroadcastBegin(k)) /\ WF_vars(PromptSend(k))

\* ============================================================== strategies
\* twap and grid of the backend bot (bot_logic.py) and their predecessors
\* place_twap_order and place_grid_orders of the command-line bot
\* (codebase.py).  They are synchronous: one call runs from entry to its
\* return with nothing else touching the run, so a run is a chain of
\* place_order calls, each answered by the exchange, and of sleeps.
\* Quantities and prices are integers in the unit of the last digit that
\* round() keeps.

\* Python's round(n / d, digits) on values already scaled to the last
\* kept digit: round half to even.
RoundHalfEven(n, d) ==
    LET q == n \div d
        r == n % d
    IN  IF 2 * r < d THEN q
        ELSE IF 2 * r > d THEN q + 1
        ELSE IF q % 2 = 0 THEN q ELSE q + 1

Raised(r, exception) ==
    [r EXCEPT !.run_pc = "returned",
              !.result = [kind |-> "raise", exception |-> exception]]

Success(r) ==
    [r EXCEPT !.run_pc = "returned",
              !.result = [kind |-> "return", status |-> "success",
                          orders_placed |-> r.placed_orders]]

ReturnedOrders(r) ==
    [r EXCEPT !.run_pc = "returned",
              !.result = [kind |-> "return", orders |-> r.placed_orders]]

ReturnedNone(r) ==
    [r EXCEPT !.run_pc = "returned", !.result = [kind |-> "return_None"]]

\* bot_logic.py:99-108: the parameters place_order hands to
\* client.create_order for a MARKET or a LIMIT order.
OrderParams(order) ==
    IF order.type = "LIMIT"
    THEN [symbol |-> "symbol", side |-> "side", quantity |-> order.quantity,
          type |-> "LIMIT", timeInForce |-> "GTC", price |-> order.price]
    ELSE [symbol |-> "symbol", side |-> "side", quantity |-> order.quantity,
          type |-> "MARKET"]

PlaceOrderCalled(r, order, outcome) ==
    [r EXCEPT !.gateway = Append(@, [order |-> order, outcome |-> outcome])]

\* twap, from entry to the first place_order.
twap_enter(total_qty, interval_sec, slices) ==
    LET r == [NoRun EXCEPT !.method = "twap",
                           !.args = [total_qty |-> total_qty,
                                     interval_sec |-> interval_sec,
                                     slices |-> slices]]
    IN  IF slices <= 0 \/ total_qty <= 0 \/ interval_sec <= 0
        THEN Raised(r, "ValueError")
        ELSE [r EXCEPT !.run_pc = "place_order",
                       !.qty_per_order = RoundHalfEven(total_qty, slices)]

\* A twap that does not sleep between its slices.
twap_slice_no_sleep(r, outcome) ==
    LET order == [i |-> r.i, type |-> "MARKET",
                  quantity |-> r.qty_per_order, price |-> 0]
        called == PlaceOrderCalled(r, order, outcome)
        placed == [called EXCEPT !.placed_orders = Append(@, order)]
    IN  IF outcome = "filled"
        THEN IF r.i < r.args.slices - 1
             THEN [placed EXCEPT !.i = @ + 1]
             ELSE Success(placed)
        ELSE Raised(called, "Exception")

\* A twap that goes on to the next slice without waiting for the outcome
\* of the order it has submitted.
twap_slice_unrecorded(r, outcome) ==
    IF r.i < r.args.slices - 1
    THEN [r EXCEPT !.run_pc = "sleep"]
    ELSE Success(r)

\* twap, from the return of place_order for slice i to the next sleep or
\* to the end of the call.
twap_slice(r, outcome) ==
    LET order == [i |-> r.i, type |-> "MARKET",
                  quantity |-> r.qty_per_order, price |-> 0]
        called == PlaceOrderCalled(r, order, outcome)
        placed == [called EXCEPT !.placed_orders = Append(@, order)]
    IN  IF outcome = "filled"
        THEN IF r.i < r.args.slices - 1
             THEN [placed EXCEPT !.run_pc = "sleep"]
             ELSE Success(placed)
        ELSE Raised(called, "Exception")

\* grid, from entry to the first place_order.
grid_enter(lower_price, upper_price, grids, quantity) ==
    LET r == [NoRun EXCEPT !.method = "grid",
                           !.args = [lower_price |-> lower_price,
                                     upper_price |-> upper_price,
                                     grids |-> grids,
                                     quantity |-> quantity]]
    IN  IF grids <= 1 \/ lower_price >= upper_price \/ quantity <= 0
        THEN Raised(r, "ValueError")
        ELSE [r EXCEPT !.run_pc = "place_order",
                       !.qty_per_order = quantity]

\* bot_logic.py:22, a constant that no code of the bot reads.
MAX_RETRIES == 3

\* A grid that submits the order of a failed level again, up to
\* MAX_RETRIES calls.
grid_slice_retries(r, outcome) ==
    LET order == [i |-> r.i, type |-> "LIMIT",
                  quantity |-> r.qty_per_order, price |-> 0]
        called == PlaceOrderCalled(r, order, outcome)
        placed == [called EXCEPT !.placed_orders = Append(@, order)]
    IN  IF outcome = "filled"
        THEN IF r.i < r.args.grids - 1
             THEN [placed EXCEPT !.i = @ + 1]
             ELSE Success(placed)
        ELSE IF Len(called.gateway) < MAX_RETRIES
             THEN called
             ELSE Raised(called, "Exception")

\* A grid price computed from a step that was rounded first.
GridPriceRoundedStep(lower_price, upper_price, grids, i) ==
    lower_price + i * RoundHalfEven(upper_price - lower_price, grids - 1)

\* round(lower_price + i * price_step, digits) with
\* price_step = (upper_price - lower_price) / (grids - 1).
GridPrice(lower_price, upper_price, grids, i) ==
    RoundHalfEven(lower_price * (grids - 1) + i * (upper_price - lower_price),
                  grids - 1)

\* grid, from the return of place_order for level i to the next
\* place_order or to the end of the call.
grid_slice(r, outcome) ==
    LET order == [i |-> r.i, type |-> "LIMIT",
                  quantity |-> r.qty_per_order,
                  price |-> GridPrice(r.args.lower_price, r.args.upper_price,
                                      r.args.grids, r.i)]
        called == PlaceOrderCalled(r, order, outcome)
        placed == [called EXCEPT !.placed_orders = Append(@, order)]
    IN  IF outcome = "filled"
        THEN IF r.i < r.args.grids - 1
             THEN [placed EXCEPT !.i = @ + 1]
             ELSE Success(placed)
        ELSE Raised(called, "Exception")

\* place_twap_order, from entry to the first place_order.  The chunk
\* size quantity / intervals is not rounded: it is kept as a fraction.
place_twap_order_enter(quantity, duration_min, intervals) ==
    LET r == [NoRun EXCEPT !.method = "place_twap_order",
                           !.args = [quantity |-> quantity,
                                     duration_min |-> duration_min,
                                     intervals |-> intervals]]
    IN  IF intervals <= 0 \/ duration_min <= 0
        THEN ReturnedNone(r)
        ELSE [r EXCEPT !.run_pc = "place_order",
                       !.qty_per_order = <<quantity, intervals>>]

\* place_twap_order, from the return of place_order for order i to the
\* next sleep or to the end of the call.  place_order of codebase.py
\* returns the order or None, it never raises.
place_twap_order_slice(r, outcome) ==
    LET order == [i |-> r.i, type |-> "MARKET",
                  quantity |-> r.qty_per_order, price |-> 0]
        called == PlaceOrderCalled(r, order, outcome)
        after == IF outcome = "filled"
                 THEN [called EXCEPT !.placed_orders = Append(@, order)]
                 ELSE called
    IN  IF r.i < r.args.intervals - 1
        THEN [after EXCEPT !.run_pc = "sleep"]
        ELSE ReturnedOrders(after)

\* place_grid_orders, from entry to the first place_order.
place_grid_orders_enter(total_quantity, start_price, end_price, grids) ==
    LET r == [NoRun EXCEPT !.method = "place_grid_orders",
                           !.args = [total_quantity |-> total_quantity,
                                     start_price |-> start_price,
                                     end_price |-> end_price,
                                     grids |-> grids]]
    IN  IF grids <= 1
        THEN ReturnedNone(r)
        ELSE [r EXCEPT !.run_pc = "place_order",
                       !.qty_per_order = <<total_quantity, grids>>]

\* place_grid_orders, from the return of place_order for level i to the
\* rate limiting sleep that follows every order.
place_grid_orders_slice(r, outcome) ==
    LET order == [i |-> r.i, type |-> "LIMIT",
                  quantity |-> r.qty_per_order,
                  price |-> GridPrice(r.args.start_price, r.args.end_price,
                                      r.args.grids, r.i)]
        called == PlaceOrderCalled(r, order, outcome)
        after == IF outcome = "filled"
                 THEN [called EXCEPT !.placed_orders = Append(@, order)]
                 ELSE called
    IN  [after EXCEPT !.run_pc = "sleep"]

\* The end of a time.sleep: on to the next order, or, after the last
\* level of place_grid_orders, to the return.
after_sleep(r) ==
    LET slept == [r EXCEPT !.sleeps = @ + 1]
    IN  IF r.method = "place_grid_orders" /\ r.i >= r.args.grids - 1
        THEN ReturnedOrders(slept)
        ELSE [slept EXCEPT !.i = @ + 1, !.run_pc = "place_order"]

\* ------------------------------------------------------ strategy actions

CallTwap(total_qty, interval_sec, slices) ==
    /\ run.run_pc = "idle"
    /\ run' = twap_enter(total_qty, interval_sec, slices)
    /\ UNCHANGED <<stream_vars, cancelled_at, trade_history, log_trade_result, http_response, key_vars, singleton_vars, balance_call>>

CallGrid(lower_price, upper_price, grids, quantity) ==
    /\ run.run_pc = "idle"
    /\ run' = grid_enter(lower_price, upper_price, grids, quantity)
    /\ UNCHANGED <<stream_vars, cancelled_at, trade_history, log_trade_result, http_response, key_vars, singleton_vars, balance_call>>

CallPlaceTwapOrder(quantity, duration_min, intervals) ==
    /\ run.run_pc = "idle"
    /\ run' = place_twap_order_enter(quantity, duration_min, intervals)
    /\ UNCHANGED <<stream_vars, cancelled_at, trade_history, log_trade_result, http_response, key_vars, singleton_vars, balance_call>>

CallPlaceGridOrders(total_quantity, start_price, end_price, grids) ==
    /\ run.run_pc = "idle"
    /\ run' = place_grid_orders_enter(total_quantity, start_price,
                                      end_price, grids)
    /\ UNCHANGED <<stream_vars, cancelled_at, trade_history, log_trade_result, http_response, key_vars, singleton_vars, balance_call>>

\* place_order comes back: with the order the exchange created, with an
\* empty answer, or with an error of the exchange.
PlaceOrderReturns(outcome) ==
    /\ run.run_pc = "place_order"
    /\ run' = CASE run.method = "twap" -> twap_slice(run, outcome)
               [] run.method = "grid" -> grid_slice(run, outcome)
               [] run.method = "place_twap_order" ->
                      place_twap_order_slice(run, outcome)
               [] run.method = "place_grid_orders" ->
                      place_grid_orders_slice(run, outcome)
    /\ UNCHANGED <<stream_vars, cancelled_at, trade_history, log_trade_result, http_response, key_vars, singleton_vars, balance_call>>

SleepEnds ==
    /\ run.run_pc = "sleep"
    /\ run' = after_sleep(run)
    /\ UNCHANGED <<stream_vars, cancelled_at, trade_history, log_trade_result, http_response, key_vars, singleton_vars, balance_call>>

NextStrategy ==
    \/ \E total_qty \in Quantities, interval_sec \in Intervals,
          slices \in 0..MaxSlices :
           CallTwap(total_qty, interval_sec, slices)
    \/ \E lower_price, upper_price \in Prices, grids \in 1..MaxLevels,
          quantity \in Quantities :
           CallGrid(lower_price, upper_price, grids, quantity)
    \/ \E quantity \in Quantities, duration_min \in Intervals,
          intervals \in 0..MaxSlices :
           CallPlaceTwapOrder(quantity, duration_min, intervals)
    \/ \E total_quantity \in Quantities, start_price, end_price \in Prices,
          grids \in 1..MaxLevels :
           CallPlaceGridOrders(total_quantity, start_price, end_price, grids)
    \/ \E outcome \in GatewayOutcomes : PlaceOrderReturns(outcome)
    \/ SleepEnds

SpecStrategy == Init /\ [][NextStrategy]_vars

\* ------------------------------------------------ cancelled strategy calls
\* run_on_user_bot_wrapper awaits the strategy method in a worker thread
\* (main.py:214).  The request that awaits it can be cancelled, by the
\* client going away or by the shutdown of the server; the thread is not
\* told and twap and grid read no flag.

CancelRequest ==
    /\ run.method \in {"twap", "grid"}
    /\ run.run_pc \in {"place_order", "sleep"}
    /\ cancelled_at.run_pc = "never"
    /\ cancelled_at' = [run_pc |-> run.run_pc, recorded |-> Len(run.gateway)]
    /\ UNCHANGED <<stream_vars, run, trade_history, log_trade_result, http_response, key_vars, singleton_vars, balance_call>>

NextCancellable ==
    \/ NextStrategy
    \/ CancelRequest

SpecCancellable == Init /\ [][NextCancellable]_vars

\* ------------------------------------------------ trade log, order requests

\* models.py:59, the unique constraint uq_user_binance_order: whether the
\* table holds a row of the user with the order id.
HasTrade(table, user, order) ==
    \E i \in DOMAIN table :
        table[i].user_id = user /\ table[i].binance_order_id = order

\* trade_service.py:13-33.  db.add and db.commit insert one row; when the
\* insert breaks the unique constraint the commit raises, the except branch
\* rolls the session back and raises again.
log_trade(user, order, trade_status) ==
    IF HasTrade(trade_history, user, order)
    THEN /\ trade_history' = trade_history
         /\ log_trade_result' = [outcome |-> "raised", duplicate |-> TRUE]
    ELSE /\ Len(trade_history) < MaxTrades
         /\ trade_history' = Append(trade_history,
                [user_id |-> user, binance_order_id |-> order,
                 status |-> trade_status])
         /\ log_trade_result' = [outcome |-> "returned", duplicate |-> FALSE]

LogTrade ==
    \E user \in Users, order \in OrderIds, trade_status \in TradeStatuses :
        /\ log_trade(user, order, trade_status)
        /\ UNCHANGED <<stream_vars, run, cancelled_at, http_response, key_vars, singleton_vars, balance_call>>

\* bot_logic.py:123: what create_order raises, "none" when it returns
CreateOrderRaises(exchange) ==
    IF exchange.create_order = "order" THEN "none" ELSE exchange.create_order

\* bot_logic.py:92-118, the checks of place_order: the class of the
\* exception they raise, "none" when the call reaches line 122.
\* client.format_price is taken to return.
PlaceOrderChecksRaise(args, exchange) ==
    IF exchange.symbol_info = "BinanceAPIException" THEN "BinanceAPIException"
    ELSE IF exchange.symbol_info = "None" THEN "ValueError"
    ELSE IF args.order_type = "MARKET" THEN "none"
    ELSE IF args.order_type = "LIMIT"
         THEN IF args.price = "None" THEN "ValueError" ELSE "none"
    ELSE IF args.order_type \in {"STOP_MARKET", "STOP_LOSS", "STOP_LOSS_LIMIT",
                                 "TAKE_PROFIT", "TAKE_PROFIT_LIMIT"}
         THEN IF args.stop_price = "None" THEN "ValueError"
              ELSE IF /\ args.order_type \in {"STOP_LOSS_LIMIT", "TAKE_PROFIT_LIMIT"}
                      /\ args.price = "None"
                   THEN "ValueError"
              ELSE "none"
    ELSE "ValueError"

\* place_order sending the order as soon as the symbol is known, before
\* the checks of the order type.
CreateOrderCallsBeforeChecks(args, exchange) ==
    IF exchange.symbol_info = "info" THEN 1 ELSE 0

\* bot_logic.py:123: the calls of client.create_order one call of
\* place_order makes.
CreateOrderCalls(args, exchange) ==
    IF PlaceOrderChecksRaise(args, exchange) = "none" THEN 1 ELSE 0

\* bot_logic.py:92-123, the try body of place_order: the class of the
\* exception it raises, "none" when it reaches the return of line 125.
PlaceOrderRaisedInTry(args, exchange) ==
    IF PlaceOrderChecksRaise(args, exchange) # "none"
    THEN PlaceOrderChecksRaise(args, exchange)
    ELSE CreateOrderRaises(exchange)

\* bot_logic.py:90-134: every except branch raises a plain Exception whose
\* message starts with the kind of the failure.
place_order(args, exchange) ==
    LET raised == PlaceOrderRaisedInTry(args, exchange)
    IN  IF raised = "none"
        THEN [returned |-> TRUE, exception |-> "none", message |-> "none"]
        ELSE [returned |-> FALSE,
              exception |-> "Exception",
              message |-> CASE raised = "BinanceAPIException" -> "Binance API Error"
                            [] raised = "ValueError" -> "Validation Error"
                            [] OTHER -> "Unexpected Server Error"]

\* main.py:213-225: the status of the answer, by the class of what the
\* method raised.
run_on_user_bot_wrapper(outcome, code) ==
    IF outcome.returned THEN 200
    ELSE CASE outcome.exception = "BinanceAPIException" ->
                IF code < 0 - 2000 /\ code # 0 - 1021 THEN 400 ELSE 502
           [] outcome.exception = "ValueError" -> 400
           [] OTHER -> 500

\* One order request: run_on_user_bot_wrapper calls place_order.
PostOrder ==
    \E order_type \in OrderTypes, price \in Optional, stop_price \in Optional,
       symbol_info \in SymbolInfoOutcomes, create_order \in CreateOrderOutcomes,
       code \in ApiCodes :
        LET args == [order_type |-> order_type, price |-> price,
                     stop_price |-> stop_price]
            exchange == [symbol_info |-> symbol_info,
                         create_order |-> create_order]
        IN  /\ http_response' =
                  [status |-> run_on_user_bot_wrapper(place_order(args, exchange), code),
                   raised |-> PlaceOrderRaisedInTry(args, exchange),
                   args |-> args,
                   exchange |-> exchange,
                   create_order_calls |-> CreateOrderCalls(args, exchange)]
            /\ UNCHANGED <<stream_vars, run, cancelled_at, trade_history,
                           log_trade_result, key_vars, singleton_vars,
                           balance_call>>

\* The order requests alone.
NextRequests == PostOrder

SpecRequests == Init /\ [][NextRequests]_vars

\* The calls of log_trade alone.
NextTrades == LogTrade

SpecTrades == Init /\ [][NextTrades]_vars

\* ------------------------------------------------------- user API key store
\* Each call of the key service is one database transaction and is taken
\* as one step.

\* The result of a query that finds no row (None); ids start at 1.
NoRow ==
    [id |-> 0, user_id |-> "none", label |-> "none", is_active |-> FALSE,
     is_valid_on_binance |-> FALSE, last_validated_at |-> 0, updated_at |-> 0]

\* user_api_key_service.py:61-69 with the filter on the user left out.
get_user_api_key_by_id_any_owner(table, user, key_id) ==
    LET Match(row) == row.id = key_id
        found == SelectSeq(table, Match)
    IN  IF found = <<>> THEN NoRow ELSE Head(found)

\* user_api_key_service.py:61-69: the row of that id and that user, or
\* None.
get_user_api_key_by_id(table, user, key_id) ==
    LET Match(row) == row.id = key_id /\ row.user_id = user
        found == SelectSeq(table, Match)
    IN  IF found = <<>> THEN NoRow ELSE Head(found)

\* user_api_key_service.py:71-81 with the filter on is_valid_on_binance
\* left out.
get_active_valid_api_key_for_user_unvalidated(table, user) ==
    LET Match(row) == row.user_id = user /\ row.is_active
        found == SelectSeq(table, Match)
    IN  IF found = <<>> THEN NoRow
        ELSE CHOOSE row \in Range(found) :
                 \A other \in Range(found) : other.updated_at <= row.updated_at

\* user_api_key_service.py:71-81: of the user's rows that are active and
\* valid, the one updated last, or None.
get_active_valid_api_key_for_user(table, user) ==
    LET Match(row) == /\ row.user_id = user
                      /\ row.is_active
                      /\ row.is_valid_on_binance
        found == SelectSeq(table, Match)
    IN  IF found = <<>> THEN NoRow
        ELSE CHOOSE row \in Range(found) :
                 \A other \in Range(found) : other.updated_at <= row.updated_at

\* The table with the row of a key replaced (an UPDATE that commits).
Stored(table, row) ==
    [i \in DOMAIN table |-> IF table[i].id = row.id THEN row ELSE table[i]]

\* The table without the row of a key (a DELETE that commits).
Deleted(table, key_id) ==
    LET Other(row) == row.id # key_id IN SelectSeq(table, Other)

\* Every call of the service is made at a later reading of the clock.
Tick ==
    /\ now < MaxTime
    /\ now' = now + 1

\* user_api_key_service.py:16-51.  A failure of the encryption or of the
\* commit raises ValueError and stores nothing.
create_user_api_key(user, label, is_active, outcome) ==
    /\ key_id_seq < MaxKeys
    /\ Tick
    /\ IF outcome = "committed"
       THEN /\ user_api_keys' = Append(user_api_keys,
                   [id |-> key_id_seq + 1,
                    user_id |-> user,
                    label |-> label,
                    is_active |-> is_active,
                    is_valid_on_binance |-> FALSE,
                    last_validated_at |-> 0,
                    updated_at |-> now])
            /\ key_id_seq' = key_id_seq + 1
            /\ key_result' = [op |-> "create_user_api_key", user_id |-> user,
                              key_id |-> key_id_seq + 1, returned |-> "row"]
       ELSE /\ UNCHANGED <<user_api_keys, key_id_seq>>
            /\ key_result' = [op |-> "create_user_api_key", user_id |-> user,
                              key_id |-> 0, returned |-> "ValueError"]
    /\ UNCHANGED key_audit

\* user_api_key_service.py:101-137.  `fields` are the fields the request
\* sets (model_dump(exclude_unset=True)), `label` and `is_active` their
\* values.
update_user_api_key(user, key_id, fields, label, is_active, commit) ==
    /\ Tick
    /\ LET db_key == get_user_api_key_by_id(user_api_keys, user, key_id)
       IN  IF db_key = NoRow
           THEN /\ UNCHANGED user_api_keys
                /\ key_result' = [op |-> "update_user_api_key", user_id |-> user,
                                  key_id |-> key_id, returned |-> "None"]
           ELSE LET with_label == IF "label" \in fields /\ db_key.label # label
                                  THEN [db_key EXCEPT !.label = label]
                                  ELSE db_key
                    with_active == IF "is_active" \in fields
                                      /\ with_label.is_active # is_active
                                   THEN [with_label EXCEPT !.is_active = is_active]
                                   ELSE with_label
                    changed_fields == with_active # db_key
                IN  IF ~changed_fields
                    THEN /\ UNCHANGED user_api_keys
                         /\ key_result' = [op |-> "update_user_api_key",
                                           user_id |-> user, key_id |-> key_id,
                                           returned |-> "row"]
                    ELSE IF commit = "committed"
                    THEN /\ user_api_keys' = Stored(user_api_keys,
                                [with_active EXCEPT !.updated_at = now])
                         /\ key_result' = [op |-> "update_user_api_key",
                                           user_id |-> user, key_id |-> key_id,
                                           returned |-> "row"]
                    ELSE /\ UNCHANGED user_api_keys
                         /\ key_result' = [op |-> "update_user_api_key",
                                           user_id |-> user, key_id |-> key_id,
                                           returned |-> "ValueError"]
    /\ UNCHANGED <<key_id_seq, key_audit>>

\* user_api_key_service.py:140-157
delete_user_api_key(user, key_id, commit) ==
    /\ Tick
    /\ LET db_key == get_user_api_key_by_id(user_api_keys, user, key_id)
       IN  IF db_key = NoRow
           THEN /\ UNCHANGED user_api_keys
                /\ key_result' = [op |-> "delete_user_api_key", user_id |-> user,
                                  key_id |-> key_id, returned |-> "False"]
           ELSE IF commit = "committed"
           THEN /\ user_api_keys' = Deleted(user_api_keys, key_id)
                /\ key_result' = [op |-> "delete_user_api_key", user_id |-> user,
                                  key_id |-> key_id, returned |-> "True"]
           ELSE /\ UNCHANGED user_api_keys
                /\ key_result' = [op |-> "delete_user_api_key", user_id |-> user,
                                  key_id |-> key_id, returned |-> "ValueError"]
    /\ UNCHANGED <<key_id_seq, key_audit>>

\* user_api_key_service.py:195: the row is written only when the status
\* changes or the key was never validated.
NeedsUpdate(db_key, validation_passed) ==
    \/ db_key.is_valid_on_binance # validation_passed
    \/ db_key.last_validated_at = 0

\* user_api_key_service.py:160-209.  Every except branch of the
\* validation sets validation_passed False; a commit that raises is rolled
\* back and the live result is still returned.  key_audit notes the keys
\* whose validation passed and the time of the last call on each key that
\* ended without a database error.
test_and_update_api_key_status(user, key_id, validation, commit) ==
    /\ Tick
    /\ LET db_key == get_user_api_key_by_id(user_api_keys, user, key_id)
           validation_passed == validation = "passed"
       IN  IF db_key = NoRow
           THEN /\ UNCHANGED <<user_api_keys, key_audit>>
                /\ key_result' = [op |-> "test_and_update_api_key_status",
                                  user_id |-> user, key_id |-> key_id,
                                  returned |-> "False"]
           ELSE /\ user_api_keys' =
                      IF NeedsUpdate(db_key, validation_passed)
                         /\ commit = "committed"
                      THEN Stored(user_api_keys,
                              [db_key EXCEPT !.is_valid_on_binance = validation_passed,
                                             !.last_validated_at = now,
                                             !.updated_at = now])
                      ELSE user_api_keys
                /\ key_audit' =
                      [passed |-> IF validation_passed
                                  THEN key_audit.passed \cup {key_id}
                                  ELSE key_audit.passed,
                       tested_at |->
                           IF NeedsUpdate(db_key, validation_passed)
                              /\ commit = "raises"
                           THEN key_audit.tested_at
                           ELSE [key_audit.tested_at EXCEPT ![key_id] = now]]
                /\ key_result' = [op |-> "test_and_update_api_key_status",
                                  user_id |-> user, key_id |-> key_id,
                                  returned |-> IF validation_passed THEN "True"
                                               ELSE "False"]
    /\ UNCHANGED key_id_seq

\* main.py:147, 192: websocket_endpoint and get_user_bot look up the key
\* of the user of the request.
LookUpKey(user) ==
    /\ Tick
    /\ LET key_rec == get_active_valid_api_key_for_user(user_api_keys, user)
       IN  key_result' = [op |-> "get_active_valid_api_key_for_user",
                          user_id |-> user,
                          key_id |-> key_rec.id,
                          returned |-> IF key_rec = NoRow THEN "None" ELSE "row",
                          row |-> key_rec]
    /\ UNCHANGED <<user_api_keys, key_id_seq, key_audit>>

\* The calls of the key service made by the endpoints of main.py.
NextKeys ==
    \/ \E user \in Users, label \in Labels, is_active \in BOOLEAN,
          outcome \in CommitOutcomes :
          /\ create_user_api_key(user, label, is_active, outcome)
          /\ UNCHANGED <<stream_vars, run, cancelled_at, trade_history,
                         log_trade_result, http_response, singleton_vars,
                         balance_call>>
    \/ \E user \in Users, key_id \in KeyIds,
          fields \in SUBSET {"label", "is_active"}, label \in Labels,
          is_active \in BOOLEAN, commit \in CommitOutcomes :
          /\ update_user_api_key(user, key_id, fields, label, is_active, commit)
          /\ UNCHANGED <<stream_vars, run, cancelled_at, trade_history,
                         log_trade_result, http_response, singleton_vars,
                         balance_call>>
    \/ \E user \in Users, key_id \in KeyIds, commit \in CommitOutcomes :
          /\ delete_user_api_key(user, key_id, commit)
          /\ UNCHANGED <<stream_vars, run, cancelled_at, trade_history,
                         log_trade_result, http_response, singleton_vars,
                         balance_call>>
    \/ \E user \in Users, key_id \in KeyIds,
          validation \in ValidationOutcomes, commit \in CommitOutcomes :
          /\ test_and_update_api_key_status(user, key_id, validation, commit)
          /\ UNCHANGED <<stream_vars, run, cancelled_at, trade_history,
                         log_trade_result, http_response, singleton_vars,
                         balance_call>>
    \/ \E user \in Users :
          /\ LookUpKey(user)
          /\ UNCHANGED <<stream_vars, run, cancelled_at, trade_history,
                         log_trade_result, http_response, singleton_vars,
                         balance_call>>

SpecKeys == Init /\ [][NextKeys]_vars

\* --------------------------------------------------------- get_bot_singleton
\* asyncio hands the lock to a caller without suspending it when the lock
\* is free; the steps below also allow other callers to run between the
\* first check and the taking of the lock, and between the taking of the
\* lock and the body, which covers every schedule the event loop can make.

\* main.py:83-84: a call starts and reads bot_singleton outside the lock.
CallGetBotSingleton(c) ==
    /\ callers[c].pc \in {"idle", "returned", "raised"}
    /\ callers[c].calls < MaxCalls
    /\ callers' = [callers EXCEPT ![c] =
          IF bot_singleton = 0
          THEN [@ EXCEPT !.pc = "waiting", !.calls = @ + 1,
                         !.result = 0, !.status = 0]
          ELSE [@ EXCEPT !.pc = "returned", !.calls = @ + 1,
                         !.result = bot_singleton, !.status = 200]]
    /\ UNCHANGED <<bot_singleton, bot_init_lock, constructed>>

\* main.py:85: async with bot_init_lock
AcquireInitLock(c) ==
    /\ callers[c].pc = "waiting"
    /\ bot_init_lock = "free"
    /\ bot_init_lock' = c
    /\ callers' = [callers EXCEPT ![c].pc = "locked"]
    /\ UNCHANGED <<bot_singleton, constructed>>

\* The body under the lock without the second look at bot_singleton.
InitializeUnderLockUnchecked(c, outcome) ==
    /\ callers[c].pc = "locked"
    /\ bot_init_lock' = "free"
    /\ IF outcome = "constructed"
       THEN /\ constructed' = constructed + 1
            /\ bot_singleton' = constructed + 1
            /\ callers' = [callers EXCEPT ![c].pc = "returned",
                                          ![c].result = constructed + 1,
                                          ![c].status = 200]
       ELSE /\ UNCHANGED <<constructed, bot_singleton>>
            /\ callers' = [callers EXCEPT ![c].pc = "raised",
                                          ![c].status = 503,
                                          ![c].failures = @ + 1]

\* main.py:86-100: under the lock bot_singleton is read again and, when it
\* is still None, BasicBot() is called; a constructor that raises ends the
\* call with HTTP 503.  The lock is released and the call returns
\* bot_singleton without suspending.
InitializeUnderLock(c, outcome) ==
    /\ callers[c].pc = "locked"
    /\ bot_init_lock' = "free"
    /\ IF bot_singleton # 0
       THEN /\ outcome = "constructed"
            /\ UNCHANGED <<constructed, bot_singleton>>
            /\ callers' = [callers EXCEPT ![c].pc = "returned",
                                          ![c].result = bot_singleton,
                                          ![c].status = 200]
       ELSE IF outcome = "constructed"
       THEN /\ constructed' = constructed + 1
            /\ bot_singleton' = constructed + 1
            /\ callers' = [callers EXCEPT ![c].pc = "returned",
                                          ![c].result = constructed + 1,
                                          ![c].status = 200]
       ELSE /\ UNCHANGED <<constructed, bot_singleton>>
            /\ callers' = [callers EXCEPT ![c].pc = "raised",
                                          ![c].status = 503,
                                          ![c].failures = @ + 1]

NextSingleton ==
    \/ \E c \in Callers :
          /\ CallGetBotSingleton(c)
          /\ UNCHANGED <<stream_vars, run, cancelled_at, trade_history,
                         log_trade_result, http_response, key_vars,
                         balance_call>>
    \/ \E c \in Callers :
          /\ AcquireInitLock(c)
          /\ UNCHANGED <<stream_vars, run, cancelled_at, trade_history,
                         log_trade_result, http_response, key_vars,
                         balance_call>>
    \/ \E c \in Callers, outcome \in {"constructed", "raises"} :
          /\ InitializeUnderLock(c, outcome)
          /\ UNCHANGED <<stream_vars, run, cancelled_at, trade_history,
                         log_trade_result, http_response, key_vars,
                         balance_call>>

SpecSingleton == Init /\ [][NextSingleton]_vars

\* ------------------------------------------------------- get_account_balance

\* codebase.py:124: the failures of an account request that the inner
\* except clause catches.
Retryable == {"malformed", "unparsable_balance", "BinanceAPIException",
              "KeyError"}

\* get_account_balance giving up at the first failed request.
account_request_no_retry(call, outcome) ==
    LET made == [call EXCEPT !.requests = Append(@, outcome)]
    IN  IF outcome = "well_formed"
        THEN [made EXCEPT !.pc = "returned", !.result = "response"]
        ELSE [made EXCEPT !.pc = "returned", !.result = "None"]

\* codebase.py:106-137, one turn of the loop: the request of line 109 is
\* made and ends in `outcome`.  A well-formed response is returned; a
\* failure the inner except catches leads to the sleep while
\* attempt < max_retries - 1 and is raised again otherwise; what is raised
\* out of the loop is caught by the outer except clauses, which return
\* None.
account_request(call, outcome) ==
    LET made == [call EXCEPT !.requests = Append(@, outcome)]
    IN  IF outcome = "well_formed"
        THEN [made EXCEPT !.pc = "returned", !.result = "response"]
        ELSE IF outcome \in Retryable /\ call.attempt < max_retries - 1
        THEN [made EXCEPT !.pc = "sleeping"]
        ELSE [made EXCEPT !.pc = "returned", !.result = "None"]

\* codebase.py:98-104: a call starts.
CallGetAccountBalance ==
    /\ balance_call.pc = "idle"
    /\ balance_call' = [balance_call EXCEPT !.pc = "requesting"]

\* codebase.py:106-128
AccountRequest(outcome) ==
    /\ balance_call.pc = "requesting"
    /\ balance_call' = account_request(balance_call, outcome)

\* codebase.py:126-127: time.sleep(1) ends, the loop goes to the next
\* attempt.
RetrySleepEnds ==
    /\ balance_call.pc = "sleeping"
    /\ balance_call' = [balance_call EXCEPT !.pc = "requesting",
                                             !.attempt = @ + 1,
                                             !.sleeps = @ + 1]

NextBalance ==
    \/ /\ CallGetAccountBalance
       /\ UNCHANGED <<stream_vars, run, cancelled_at, trade_history,
                      log_trade_result, http_response, key_vars,
                      singleton_vars>>
    \/ \E outcome \in RequestOutcomes :
          /\ AccountRequest(outcome)
          /\ UNCHANGED <<stream_vars, run, cancelled_at, trade_history,
                         log_trade_result, http_response, key_vars,
                         singleton_vars>>
    \/ /\ RetrySleepEnds
       /\ UNCHANGED <<stream_vars, run, cancelled_at, trade_history,
                      log_trade_result, http_response, key_vars,
                      singleton_vars>>

SpecBalance == Init /\ [][NextBalance]_vars

\* ================================================================== claims

OpenSessions == {i \in DOMAIN sessions : sessions[i].state = "open"}

StreamRunning ==
    /\ user_data_stream_started
    /\ twm \in OpenSessions

C2_AttachedHaveRunningStream ==
    \A w \in WebSockets :
        (Contains(active_websockets, w)
           /\ attach_mode[w] \in {"reused", "created"}) => StreamRunning

\* The creator of a session has detached while a connection that reused
\* the session is still attached to it.
C2_Witness ==
    \E a, b \in WebSockets :
        /\ pc[a] = "closed" /\ attach_mode[a] = "created"
        /\ pc[b] = "attached" /\ attach_mode[b] = "reused"
        /\ Contains(active_websockets, b)
        /\ StreamRunning
        /\ sessions[twm].opened_by = a

SessionUser(i) == token_user[sessions[i].opened_by]

\* C4: fan-out is scoped to the identity: every event a subscriber was
\* sent comes from a stream opened for the subscriber's own identity.
C4_FanOutScopedToIdentity ==
    \A w \in WebSockets : \A i \in DOMAIN delivered[w] :
        SessionUser(events[delivered[w][i]].session) = token_user[w]

\* C9: in a finished broadcast every client of the call was either sent
\* the event or marked; a marked client is no longer in the subscriber
\* set; a client whose sends succeed was sent the event whatever happened
\* to the others.
C9_SendFailuresIsolated ==
    \A k \in DOMAIN tasks :
        tasks[k].st = "done" =>
            \A i \in DOMAIN tasks[k].copy :
                LET w == tasks[k].copy[i]
                IN  /\ Contains(delivered[w], tasks[k].ev)
                       \/ Contains(tasks[k].clients_to_remove, w)
                    /\ Contains(tasks[k].clients_to_remove, w)
                         => ~Contains(active_websockets, w)
                    /\ SendSucceeds(w) => Contains(delivered[w], tasks[k].ev)

\* A broadcast to two clients has finished; the send to one failed and it
\* was removed, the other one received the event.
C9_Witness ==
    \E k \in DOMAIN tasks : \E a, b \in WebSockets :
        /\ tasks[k].st = "done"
        /\ a # b
        /\ Contains(tasks[k].copy, a) /\ Contains(tasks[k].copy, b)
        /\ Contains(tasks[k].clients_to_remove, a)
        /\ ~Contains(active_websockets, a)
        /\ Contains(delivered[b], tasks[k].ev)
        /\ Contains(active_websockets, b)

TimesForwarded(ev) == Cardinality({i \in DOMAIN forwarded : forwarded[i] = ev})

\* C10: every terminal fill whose fan-out has finished was forwarded
\* exactly once to trade_service.log_trade, with or without subscribers.
C10_FillForwardedOnce ==
    \A k \in DOMAIN tasks :
        (tasks[k].st = "done" /\ events[tasks[k].ev].e = "executionReport_FILLED")
            => TimesForwarded(tasks[k].ev) = 1

\* C11: once the error message of a stream has been handled and fanned
\* out, the session it came from is closed and is no longer the bot's
\* stream (not started, manager dropped), so that the next attach opens a
\* fresh session.
C11_ErrorEvictsSession ==
    \A k \in DOMAIN tasks :
        (tasks[k].type = "error" /\ tasks[k].st = "done") =>
            LET s == events[tasks[k].ev].session
            IN  /\ sessions[s].state # "open"
                /\ ~(user_data_stream_started /\ twm = s)

\* C12: an attach whose start of the upstream stream fails registers no
\* session (not started, no manager kept), fails for its caller (the
\* connection is not added to the subscribers) and has made one attempt
\* to start, not more.
C12_StartFailureReturnedNoRetry ==
    [][\A w \in WebSockets :
         (pc[w] = "accepted" /\ pc'[w] = "attached"
            /\ ~user_data_stream_started /\ ~user_data_stream_started')
           => /\ twm' = 0
              /\ ~Contains(active_websockets', w)
              /\ Len(sessions') = Len(sessions) + 1
      ]_vars

\* C13: a live session was opened with the credentials of the attach that
\* created it, those stored for the attaching user.
C13_OpenedWithAttachCredentials ==
    \A i \in DOMAIN sessions :
        sessions[i].state = "open" =>
            sessions[i].credentials = StoredCredentials(SessionUser(i))

\* C14: each subscriber is sent the events in the order in which they
\* were published.
C14_DeliveredInPublishOrder ==
    \A w \in WebSockets :
        \A i, j \in DOMAIN delivered[w] :
            i < j => delivered[w][i] < delivered[w][j]

\* C15: with a subscriber whose send never completes, an event that is
\* being fanned out to a set of subscribers is still delivered to every
\* other subscriber of the set in the end (or that subscriber has gone).
C15_SlowSubscriberNoBackpressure ==
    \A k \in 1..MaxPublished : \A w \in WebSockets \ {SlowSubscriber} :
        (k \in DOMAIN tasks /\ Contains(tasks[k].copy, w))
            ~> (/\ k \in DOMAIN tasks
                /\ Contains(delivered[w], tasks[k].ev) \/ ~SendSucceeds(w))

\* ------------------------------------------------------- strategy claims

\* The call has ended, one way or the other, and got past its checks of
\* the arguments.
RunEnded(methods) ==
    /\ run.run_pc = "returned"
    /\ run.method \in methods
    /\ run.gateway # <<>>

\* The number of slices or levels the run was asked for.
Asked ==
    CASE run.method = "twap" -> run.args.slices
      [] run.method = "place_twap_order" -> run.args.intervals
      [] OTHER -> run.args.grids

\* The orders in what the caller got; an exception carries none.
HandedBack ==
    IF run.result.kind # "return" THEN <<>>
    ELSE IF run.method \in {"twap", "grid"} THEN run.result.orders_placed
    ELSE run.result.orders

IsFilled(call) == call.outcome = "filled"

\* The orders the exchange accepted during the run, in the order of the
\* calls.
FilledOrders ==
    LET filled == SelectSeq(run.gateway, IsFilled)
    IN  [k \in 1..Len(filled) |-> filled[k].order]

AttemptedInIndexOrder ==
    /\ Len(run.gateway) = Asked
    /\ \A k \in 1..Len(run.gateway) : run.gateway[k].order.i = k - 1

\* C5: a TWAP run of n slices that passed its preconditions ends with
\* exactly n slice outcomes recorded, one per index and in order, whatever
\* failed on the way: every slice was attempted and the caller holds an
\* outcome for each of them.
C5_EverySliceHasAnOutcome ==
    RunEnded({"twap", "place_twap_order"}) =>
        /\ AttemptedInIndexOrder
        /\ Len(HandedBack) = Asked
        /\ \A k \in 1..Len(HandedBack) : HandedBack[k].i = k - 1

\* C6: a twap or grid run that ends after a failure still hands its caller
\* the outcomes of the slices that succeeded before, in order.
C6_SucceededSlicesAreHandedBack ==
    RunEnded({"twap", "grid"}) => HandedBack = FilledOrders

\* C7: a TWAP run is reported as a success exactly when every one of its
\* slices succeeded; with a failed slice all slices are still attempted
\* and the run is reported as PartiallyFailed (3 slices of which the
\* second fails: Success, Failed, Success, and PartiallyFailed).
C7_StatusTellsPartialFailure ==
    RunEnded({"twap"}) =>
        LET status == IF run.result.kind = "return" THEN run.result.status
                      ELSE "raised"
            allFilled == Len(FilledOrders) = Asked
        IN  /\ status = "success" <=> allFilled
            /\ ~allFilled =>
                   /\ status = "PartiallyFailed"
                   /\ AttemptedInIndexOrder

\* C8: a grid run attempts every one of its levels once, in index order,
\* also when placing the order of a level fails.
C8_EveryLevelAttempted ==
    RunEnded({"grid", "place_grid_orders"}) => AttemptedInIndexOrder

\* C16: the slices of a TWAP run go to the exchange one at a time: while
\* the order of slice i is with the exchange, or the run sleeps after it,
\* the outcomes of all the slices before it are there, one per index and
\* in order, and no later slice has been submitted.
C16_SlicesStrictlySequential ==
    run.method \in {"twap", "place_twap_order"} =>
        /\ \A k \in DOMAIN run.gateway : run.gateway[k].order.i = k - 1
        /\ run.run_pc = "place_order" => Len(run.gateway) = run.i
        /\ run.run_pc = "sleep" => Len(run.gateway) = run.i + 1

\* The order of the third slice of a twap is with the exchange and the
\* outcomes of the first two are recorded.
C16_Witness ==
    /\ run.method = "twap"
    /\ run.run_pc = "place_order"
    /\ run.i = 2
    /\ Len(run.gateway) = 2
    /\ run.sleeps = 2

\* C17: within one twap or grid run place_order is called at most once
\* for each slice or level index, also when the call fails.
C17_AtMostOneCallPerIndex ==
    run.method \in {"twap", "grid"} =>
        \A j, k \in DOMAIN run.gateway :
            j # k => run.gateway[j].order.i # run.gateway[k].order.i

\* A grid run has ended on the failure of its second level, which was
\* submitted once.
C17_Witness ==
    /\ run.method = "grid"
    /\ run.run_pc = "returned"
    /\ Len(run.gateway) = 2
    /\ run.gateway[1].outcome = "filled"
    /\ run.gateway[2].outcome = "raises"
    /\ run.gateway[2].order.i = 1

TwapPreconditionViolated ==
    \/ /\ run.method = "twap"
       /\ \/ run.args.slices <= 0
          \/ run.args.total_qty <= 0
          \/ run.args.interval_sec <= 0
    \/ /\ run.method = "place_twap_order"
       /\ \/ run.args.intervals <= 0
          \/ run.args.quantity <= 0
          \/ run.args.duration_min <= 0

\* The call has come back at once with a validation error, having called
\* place_order for nothing and slept for nothing.
Rejected ==
    /\ run.run_pc = "returned"
    /\ run.gateway = <<>>
    /\ run.sleeps = 0
    /\ \/ run.result.kind = "return_None"
       \/ run.result.kind = "raise" /\ run.result.exception = "ValueError"

\* C18: a TWAP call with a slice count, a total quantity or an interval
\* that is not positive is rejected: validation error, no slice attempted,
\* no delay taken.
C18_TwapPreconditionsRejected ==
    TwapPreconditionViolated => Rejected

GridPreconditionViolated ==
    \/ /\ run.method = "grid"
       /\ \/ run.args.grids <= 1
          \/ run.args.lower_price >= run.args.upper_price
          \/ run.args.quantity <= 0
    \/ /\ run.method = "place_grid_orders"
       /\ \/ run.args.grids <= 1
          \/ run.args.start_price >= run.args.end_price
          \/ run.args.total_quantity <= 0

\* C19: a GRID call with fewer than two levels, a lower price that is not
\* below the upper price or a quantity that is not positive is rejected
\* before any level order is submitted.
C19_GridPreconditionsRejected ==
    GridPreconditionViolated => Rejected

\* The price range and the number of levels of a grid run.
GridRange ==
    IF run.method = "grid"
    THEN [lower |-> run.args.lower_price, upper |-> run.args.upper_price,
          grids |-> run.args.grids]
    ELSE [lower |-> run.args.start_price, upper |-> run.args.end_price,
          grids |-> run.args.grids]

C22_IdempotencyKeySent ==
    run.method \in {"twap", "grid"} =>
        \A k \in DOMAIN run.gateway :
            "newClientOrderId" \in DOMAIN OrderParams(run.gateway[k].order)

\* C23: when the cancellation arrives between two slices, after the
\* outcome of slice i was recorded, no further slice is submitted and the
\* run ends as Aborted with the outcomes recorded so far.
C23_CancelledBetweenSlices ==
    cancelled_at.run_pc = "sleep" =>
        /\ Len(run.gateway) = cancelled_at.recorded
        /\ run.run_pc = "returned" =>
              /\ run.result.kind = "return"
              /\ run.result.status = "Aborted"
              /\ HandedBack = FilledOrders

\* The event types _process_user_data_message has a branch for.
Recognized(kind) ==
    kind \in {"error", "executionReport_NEW", "executionReport_FILLED",
              "outboundAccountPosition", "outboundAccountPosition_zero"}

\* C24: the arrival of an upstream message of an unrecognized type
\* schedules no broadcast, sends nothing, and leaves the stream's
\* bookkeeping and the subscriber list as they were.
C24_UnrecognizedDropped ==
    [][(/\ Len(events') = Len(events) + 1
        /\ ~Recognized(events'[Len(events')].e))
          => UNCHANGED <<tasks, delivered, outbox, sessions,
                         active_websockets, twm, user_data_stream_started,
                         user_data_stream_key>>
      ]_vars

\* A message of an unrecognized type has arrived on a running stream with
\* a subscriber attached, and no broadcast exists.
C24_Witness ==
    /\ \E i \in DOMAIN events : ~Recognized(events[i].e)
    /\ tasks = <<>>
    /\ StreamRunning
    /\ active_websockets # <<>>

\* C25: stop_user_data_stream on a stream that is not started changes
\* nothing, the upstream included, and stopping twice leaves the state
\* that stopping once leaves, whatever the upstream answers.
C25_StopIdempotent ==
    \A d1, d2 \in StopOutcomes :
        /\ ~user_data_stream_started => stop_user_data_stream(Bot, d1) = Bot
        /\ stop_user_data_stream(stop_user_data_stream(Bot, d1), d2)
              = stop_user_data_stream(Bot, d1)

\* The stream has been stopped by a stop whose stop_socket raised: not
\* started, no manager, the listen key still set.
C25_Witness ==
    /\ ~user_data_stream_started
    /\ twm = 0
    /\ user_data_stream_key # 0
    /\ \E i \in DOMAIN sessions : sessions[i].state = "abandoned"

C27_LogTradeIdempotentUpsert ==
    /\ log_trade_result.outcome # "raised"
    /\ \A i, j \in DOMAIN trade_history :
          (/\ trade_history[i].user_id = trade_history[j].user_id
           /\ trade_history[i].binance_order_id = trade_history[j].binance_order_id)
             => i = j

\* C28: a validation failure raised inside place_order is answered with
\* status 400.
C28_ValidationAnswered400 ==
    http_response.raised = "ValueError" => http_response.status = 400

\* C29: whenever no broadcast is in progress, the stream is not running
\* with an empty list of clients.
C29_StreamStoppedWithoutSubscribers ==
    (\A k \in DOMAIN tasks : tasks[k].st = "done")
        => ~(user_data_stream_started /\ active_websockets = <<>>)

\* C30: while an accepted connection whose sends succeed is open it is in
\* the broadcast list, and the stream its attach started was opened with
\* the stored credentials of the user of its token.
C30_AcceptedStreamsOwnCredentials ==
    \A w \in WebSockets :
        (pc[w] = "attached" /\ healthy[w])
          => /\ Contains(active_websockets, w)
             /\ \A i \in DOMAIN sessions :
                   (sessions[i].opened_by = w /\ sessions[i].state = "open")
                     => sessions[i].credentials = StoredCredentials(token_user[w])

KeyRow(key_id) == get_user_api_key_by_id_any_owner(user_api_keys, "any", key_id)

\* C32: the key a lookup selects for a user is a stored record of that
\* user that is active and valid, and a test of it has passed before; a
\* record no test has been made on is not valid and has no validation
\* time.
C32_SelectedKeyOwnedActiveValidated ==
    /\ (key_result.op = "get_active_valid_api_key_for_user"
            /\ key_result.returned = "row")
          => /\ Contains(user_api_keys, key_result.row)
             /\ key_result.row.user_id = key_result.user_id
             /\ key_result.row.is_active
             /\ key_result.row.is_valid_on_binance
             /\ key_result.row.id \in key_audit.passed
    /\ \A i \in DOMAIN user_api_keys :
          /\ user_api_keys[i].id \notin key_audit.passed
                => /\ ~user_api_keys[i].is_valid_on_binance
                   /\ get_active_valid_api_key_for_user(
                          user_api_keys, user_api_keys[i].user_id).id
                        # user_api_keys[i].id
          /\ key_audit.tested_at[user_api_keys[i].id] = 0
                => user_api_keys[i].last_validated_at = 0

\* A lookup has selected a key while the user has another record that is
\* active and was never validated.
C32_Witness ==
    /\ key_result.op = "get_active_valid_api_key_for_user"
    /\ key_result.returned = "row"
    /\ \E i \in DOMAIN user_api_keys :
          /\ user_api_keys[i].user_id = key_result.user_id
          /\ user_api_keys[i].is_active
          /\ user_api_keys[i].id \notin key_audit.passed

\* C33: a call of the key service made for one user with the id of a
\* record of another user finds nothing: it returns None or False and the
\* table is left as it was, no validation made.
C33_KeysIsolatedPerUser ==
    [][/\ \A user \in Users, key_id \in KeyIds :
            KeyRow(key_id).user_id # user
              => get_user_api_key_by_id(user_api_keys, user, key_id) = NoRow
       /\ (/\ now' # now
            /\ key_result'.op \in {"update_user_api_key", "delete_user_api_key",
                                   "test_and_update_api_key_status"}
            /\ KeyRow(key_result'.key_id) # NoRow
            /\ KeyRow(key_result'.key_id).user_id # key_result'.user_id)
              => /\ key_result'.returned \in {"None", "False"}
                 /\ UNCHANGED <<user_api_keys, key_audit>>
      ]_vars

\* A delete asked for by one user with the id of a record of another user
\* has returned False, the record is there.
C33_Witness ==
    /\ key_result.op = "delete_user_api_key"
    /\ key_result.returned = "False"
    /\ KeyRow(key_result.key_id) # NoRow
    /\ KeyRow(key_result.key_id).user_id # key_result.user_id

\* C34: the stored last_validated_at of a key is the time of the last
\* test_and_update_api_key_status call made on it, and it is None exactly
\* when no such call was made.
C34_LastValidatedAtIsLastAttempt ==
    \A i \in DOMAIN user_api_keys :
        user_api_keys[i].last_validated_at = key_audit.tested_at[user_api_keys[i].id]

\* The checks the claim names fail for the arguments of the last order
\* request.
OwnChecksFail ==
    \/ http_response.exchange.symbol_info = "None"
    \/ http_response.args.order_type = "LIMIT" /\ http_response.args.price = "None"
    \/ /\ http_response.args.order_type \in {"STOP_MARKET", "STOP_LOSS_LIMIT"}
       /\ http_response.args.stop_price = "None"
    \/ http_response.args.order_type = "TRAILING_STOP"

\* C35: one call of place_order sends at most one order to the exchange;
\* when the symbol is unknown, a LIMIT order has no price, a stop order
\* has no stop price or the order type is not supported, it sends none and
\* ends with an exception.
C35_AtMostOneOrderNoneOnFailedCheck ==
    http_response.status # 0
      => /\ http_response.create_order_calls <= 1
         /\ OwnChecksFail
               => /\ http_response.create_order_calls = 0
                  /\ http_response.raised # "none"
                  /\ http_response.status # 200

\* A LIMIT order without a price for a known symbol, which the exchange
\* would have taken, was refused.
C35_Witness ==
    /\ http_response.status # 0
    /\ http_response.args.order_type = "LIMIT"
    /\ http_response.args.price = "None"
    /\ http_response.exchange.symbol_info = "info"
    /\ http_response.exchange.create_order = "order"
    /\ http_response.create_order_calls = 0

\* C36: the stream is marked started exactly when a manager and a stream
\* key are both held, and when it is not started neither is held.
C36_BookkeepingConsistent ==
    /\ user_data_stream_started <=> (twm # 0 /\ user_data_stream_key # 0)
    /\ ~user_data_stream_started => (twm = 0 /\ user_data_stream_key = 0)

\* C37: whatever the order of the steps of concurrent get_bot_singleton
\* calls, BasicBot is constructed with success at most once and every call
\* that returns yields that instance; a call whose construction fails ends
\* with status 503 and leaves bot_singleton None, and the next call made
\* while bot_singleton is None goes for the lock and the construction
\* again.
C37_SingletonConstructedOnce ==
    [][/\ constructed' <= 1
       /\ \A c \in Callers :
            /\ callers'[c].pc = "returned"
                  => /\ callers'[c].result = bot_singleton'
                     /\ bot_singleton' = 1
            /\ (callers[c].pc = "locked" /\ callers'[c].pc = "raised")
                  => /\ callers'[c].status = 503
                     /\ bot_singleton' = 0
            /\ (callers[c].pc = "raised" /\ callers'[c].pc # "raised"
                    /\ bot_singleton = 0)
                  => callers'[c].pc = "waiting"
            /\ (callers[c].pc = "locked" /\ bot_singleton = 0
                    /\ callers'[c].pc = "returned")
                  => constructed' = constructed + 1
      ]_vars

\* Both callers found bot_singleton None and went for the lock; one of
\* them had a construction fail before; both have the one instance.
C37_Witness ==
    /\ \A c \in Callers : callers[c].pc = "returned" /\ callers[c].result = 1
    /\ \E c \in Callers : callers[c].failures > 0
    /\ constructed = 1

\* C38: one call of get_account_balance makes at most 3 account requests;
\* it makes a further request only after a failure of the kinds it
\* retries and a sleep; it returns the first well-formed response, and it
\* returns None after a failure it does not retry or after the third
\* failed attempt.
C38_AtMostThreeRequests ==
    LET requests == balance_call.requests
        n == Len(requests)
    IN  /\ n <= 3
        /\ \A i \in 1..(n - 1) : requests[i] \in Retryable
        /\ balance_call.pc \in {"sleeping", "returned"} => balance_call.sleeps = n - 1
        /\ balance_call.pc = "sleeping" => n < 3 /\ requests[n] \in Retryable
        /\ balance_call.pc = "returned"
              => /\ balance_call.result \in {"response", "None"}
                 /\ balance_call.result = "response" <=> requests[n] = "well_formed"
                 /\ (balance_call.result = "None" /\ requests[n] \in Retryable)
                       => n = 3

\* Three requests failed and the call returned None.
C38_Witness ==
    /\ balance_call.pc = "returned"
    /\ balance_call.result = "None"
    /\ Len(balance_call.requests) = 3
    /\ balance_call.sleeps = 2

====
